---- MODULE Spec2Model ----
(***************************************************************************)
(* op_emit of cli/ops/runtime_compiler.rs: the request orchestrator of     *)
(* Deno.emit.  One call is a record that walks through the statements of   *)
(* op_emit; `state` is the host's OpState, read by every call.             *)
(***************************************************************************)
EXTENDS Naturals, Sequences, FiniteSets, TLC

\* ------------------------------------------------------------ bounds
\* Longest diagnostics sequence one emission reports.
MaxDiagnostics == 2
\* Longest sequence of graph-level errors a built graph holds.
MaxGraphErrors == 2
\* Calls of op_emit the host state has room for.
NumCalls == 2

Calls == 1..NumCalls

\* ------------------------------------------------------------ Option<T>
None == <<>>
Some(v) == <<v>>
IsSome(o) == Len(o) = 1
IsNone(o) == Len(o) = 0
Unwrap(o) == o[1]

\* Sequences over S of length at most n.
SeqUpTo(S, n) == UNION {[1..k -> S] : k \in 0..n}

\* ------------------------------------------------------------ errors
generic_error(message) == [class |-> "Error", message |-> message]
type_error(message) == [class |-> "TypeError", message |-> message]
custom_error(class, message) == [class |-> class, message |-> message]

\* anyhow's Context: the given text becomes the error's message, the class
\* of the cause is kept.
context(err, message) == [class |-> err.class, message |-> message]

Ok(v) == [ok |-> TRUE, value |-> v]
Err(e) == [ok |-> FALSE, error |-> e]

\* ------------------------------------------------------------ specifiers
SpecA == "file:///a.ts"
SpecB == "https://x/b.ts"
SpecM == "file:///im.json"
Specifiers == {SpecA, SpecB, SpecM}

\* The strings a caller writes for rootSpecifier and importMapPath.
RootInputs == {"/a.ts", "https://x/b.ts", "https://[bad"}
ImportMapPathInputs == {"/im.json", "https://[bad"}

\* deno_core::resolve_url_or_path: a string with a scheme is parsed as a URL,
\* anything else is a path made absolute and turned into a file: URL.
resolve_url_or_path(s) ==
  CASE s = "/a.ts" -> Ok(SpecA)
    [] s = "/im.json" -> Ok(SpecM)
    [] s = "https://x/b.ts" -> Ok(SpecB)
    [] s = "file:///a.ts" -> Ok(SpecA)
    [] OTHER -> Err(custom_error("URIError", <<"invalid URL: ", s>>))

\* ------------------------------------------------------------ the request
BundleInputs == {None, Some("module"), Some("classic")}
CheckInputs == {None, Some(TRUE), Some(FALSE)}
\* compilerOptions: absent, an option the compiler ignores, an option with a
\* value the compiler rejects.
CompilerOptionsInputs == {None, Some("outDir"), Some("jsx:1")}
\* importMap: absent, a JSON object, a JSON value that is no import map.
ImportMapInputs == {None, Some("object"), Some("array")}
SourcesInputs ==
  {None, Some(SpecA :> "export {}"),
   Some(SpecA :> "export {}" @@ SpecM :> "{imports}")}

\* The JSON values that decode into EmitArgs.
WellFormedArgs ==
  [bundle : BundleInputs,
   check : CheckInputs,
   compilerOptions : CompilerOptionsInputs,
   importMap : ImportMapInputs,
   importMapPath : {None} \cup {Some(p) : p \in ImportMapPathInputs},
   rootSpecifier : {Some(r) : r \in RootInputs},
   sources : SourcesInputs]

\* JSON values that do not: rootSpecifier missing, bundle not a variant.
MalformedArgs ==
  {[bundle |-> None, check |-> None, compilerOptions |-> None,
    importMap |-> None, importMapPath |-> None, rootSpecifier |-> None,
    sources |-> None],
   [bundle |-> Some("esm"), check |-> None, compilerOptions |-> None,
    importMap |-> None, importMapPath |-> None,
    rootSpecifier |-> Some("/a.ts"), sources |-> None]}

ArgValues == WellFormedArgs \cup MalformedArgs

\* serde_json::from_value::<EmitArgs>: root_specifier is a required String,
\* bundle an Option<RuntimeBundleType> with the two renamed variants.
from_value(args) ==
  IF IsNone(args.rootSpecifier)
    THEN Err(custom_error("Error", <<"missing field rootSpecifier">>))
  ELSE IF IsSome(args.bundle) /\ Unwrap(args.bundle) \notin {"module", "classic"}
    THEN Err(custom_error("Error", <<"unknown variant">>))
  ELSE Ok([bundle |-> args.bundle,
           check |-> args.check,
           compiler_options |-> args.compilerOptions,
           import_map |-> args.importMap,
           import_map_path |-> args.importMapPath,
           root_specifier |-> Unwrap(args.rootSpecifier),
           sources |-> args.sources])

\* ------------------------------------------------------------ host state
\* A Permissions value: the specifiers it allows to be fetched.
PermissionSets == {Specifiers, {SpecM}, {SpecA, SpecB}}
LogLevels == {None, Some("Debug")}

VARIABLES
  state,   \* the OpState: unstable flag, Permissions, ProgramState flags
  calls    \* calls[c]: the locals of call c of op_emit and where it stands

vars == <<state, calls>>

\* A call that has not been made.
IdleCall ==
  [pc |-> "idle",
   args |-> None,                 \* the JSON value passed in
   answers |-> None,              \* what the collaborators will answer
   log |-> <<>>,                  \* collaborator calls made so far, in order
   fetched |-> <<>>,              \* external fetches made so far
   checked |-> <<>>,              \* permission checks made so far
   parsed |-> <<>>,               \* import-map texts parsed so far
   decoded |-> None,              \* the EmitArgs
   runtime_permissions |-> None,
   handler |-> None,
   import_map_specifier |-> None,
   file |-> None,                 \* the fetched import-map file
   maybe_import_map |-> None,
   builder |-> None,
   root_specifier |-> None,
   bundle_type |-> None,
   graph_errors |-> None,
   graph |-> None,
   debug |-> None,
   analyzed_with |-> None,        \* what analyze_compiler_options was given
   emit_options |-> None,         \* what emit was given
   emitted |-> None,
   failed_at |-> None,            \* the statement that ended the call in error
   result |-> None]

Init ==
  /\ state \in [unstable : BOOLEAN,
                permissions : PermissionSets,
                log_level : LogLevels]
  /\ calls = [c \in Calls |-> IdleCall]

\* The call made `op`, which returned (ok) or failed.
Logged(st, op, ok) == [st EXCEPT !.log = Append(@, [op |-> op, ok |-> ok])]
\* `?` and `return Err(..)`: the call ends with the error, at the stage it is in.
Fail(st, e) ==
  [st EXCEPT !.pc = "Error", !.failed_at = Some(st.pc), !.result = Some(Err(e))]
Has(st, op) == \E i \in 1..Len(st.log) : st.log[i].op = op
HasOk(st, op) == \E i \in 1..Len(st.log) : st.log[i].op = op /\ st.log[i].ok
Count(st, op) == Cardinality({i \in 1..Len(st.log) : st.log[i].op = op})

\* ------------------------------------------------------------ op_emit
\* The host calls the op with a JSON value.
Invoke(st, args) == [st EXCEPT !.pc = "check_unstable", !.args = Some(args)]

\* deno_runtime::ops::check_unstable2: the gate on the unstable flag.
check_unstable2(unstable, api_name) ==
  IF unstable THEN Ok(api_name)
  ELSE Err(custom_error("FeatureDisabled",
                        <<"Unstable API '", api_name,
                          "'. The --unstable flag must be provided.">>))

\* CheckUnstable with the gate's answer dropped: the call goes on whatever
\* the flag is.
CheckUnstable_Unchecked(st, unstable) ==
  [Logged(st, "check_unstable2", unstable) EXCEPT !.pc = "decode"]

\* line 58
CheckUnstable(st, unstable) ==
  LET r == check_unstable2(unstable, "Deno.emit")
      s == Logged(st, "check_unstable2", r.ok)
  IN IF r.ok THEN [s EXCEPT !.pc = "decode"] ELSE Fail(s, r.error)

\* lines 59-60
DecodeArgs(st) ==
  LET r == from_value(Unwrap(st.args))
      s == Logged(st, "from_value", r.ok)
  IN IF r.ok THEN [s EXCEPT !.pc = "borrow", !.decoded = Some(r.value)]
     ELSE Fail(s, r.error)

\* lines 61-65: the call's own copy of the host's Permissions
BorrowState(st, permissions) ==
  [Logged(st, "borrow_permissions", TRUE) EXCEPT
     !.pc = "handler", !.runtime_permissions = Some(permissions)]

\* MemoryHandler::new(sources)
MemoryHandler_new(sources) ==
  [kind |-> "MemoryHandler", sources |-> sources,
   root_permissions |-> None, dynamic_permissions |-> None]

\* FetchHandler::new(program_state, root_permissions, dynamic_permissions);
\* it opens the cache directory, which the host may refuse.
FetchHandler_new(cache_ok, root_permissions, dynamic_permissions) ==
  IF cache_ok
    THEN Ok([kind |-> "FetchHandler", sources |-> <<>>,
             root_permissions |-> Some(root_permissions),
             dynamic_permissions |-> Some(dynamic_permissions)])
  ELSE Err(custom_error("Error", <<"cannot open cache directory">>))

\* SelectHandler that takes the FetchHandler whatever `sources` is.
SelectHandler_AlwaysFetch(st, cache_ok) ==
  LET perms == Unwrap(st.runtime_permissions)
      r == FetchHandler_new(cache_ok, perms, perms)
      s == Logged(st, "FetchHandler::new", r.ok)
  IN IF r.ok THEN [s EXCEPT !.pc = "import_map", !.handler = Some(r.value)]
     ELSE Fail(s, r.error)

\* SelectHandler that gives the FetchHandler every permission for the root
\* and the call's permissions for dynamic imports only.
SelectHandler_RootAllowAll(st, cache_ok) ==
  LET a == Unwrap(st.decoded)
      perms == Unwrap(st.runtime_permissions)
  IN IF IsSome(a.sources)
       THEN [Logged(st, "MemoryHandler::new", TRUE) EXCEPT
               !.pc = "import_map",
               !.handler = Some(MemoryHandler_new(Unwrap(a.sources)))]
     ELSE LET r == FetchHandler_new(cache_ok, Specifiers, perms)
              s == Logged(st, "FetchHandler::new", r.ok)
          IN IF r.ok THEN [s EXCEPT !.pc = "import_map", !.handler = Some(r.value)]
             ELSE Fail(s, r.error)

\* lines 69-78
SelectHandler(st, cache_ok) ==
  LET a == Unwrap(st.decoded)
      perms == Unwrap(st.runtime_permissions)
  IN IF IsSome(a.sources)
       THEN [Logged(st, "MemoryHandler::new", TRUE) EXCEPT
               !.pc = "import_map",
               !.handler = Some(MemoryHandler_new(Unwrap(a.sources)))]
     ELSE LET r == FetchHandler_new(cache_ok, perms, perms)
              s == Logged(st, "FetchHandler::new", r.ok)
          IN IF r.ok THEN [s EXCEPT !.pc = "import_map", !.handler = Some(r.value)]
             ELSE Fail(s, r.error)


\* serde_json's Value::to_string
to_string(value) == IF value = "object" THEN "{imports}" ELSE "[]"

\* ImportMap::from_json(base_url, json_string)
from_json(base_url, json_string) ==
  IF json_string = "{imports}"
    THEN Ok([base_url |-> base_url, imports |-> json_string])
  ELSE Err(custom_error("ImportMapError", <<"Unable to parse import map JSON">>))

\* What a fetch finds at a specifier: nothing, or a file with this text.
ImportMapFiles == {None, Some("{imports}"), Some("not json")}
ModuleFiles == {None, Some("export {}")}

\* FileFetcher::fetch(specifier, permissions): the permission check on the
\* specifier, then the fetch.
file_fetcher_fetch(specifier, permissions, content) ==
  IF specifier \notin permissions
    THEN Err(custom_error("PermissionDenied", <<"access denied: ", specifier>>))
  ELSE IF IsNone(content)
    THEN Err(custom_error("NotFound", <<"cannot find: ", specifier>>))
  ELSE Ok([specifier |-> specifier, source |-> Unwrap(content)])

\* What FileFetcher::fetch can leave in the permissions it is given by `&mut`:
\* the set as it was, or the set with the answer to the check of the
\* specifier written into it, a grant or a denial.
PermissionsAfterFetch(permissions, specifier) ==
  {permissions, permissions \cup {specifier}, permissions \ {specifier}}

\* The branch without the `else if`: a value without a path counts as no
\* import map.
ImportMapBranch_ValueIgnored(a) ==
  IF IsSome(a.import_map_path)
    THEN IF IsSome(a.import_map) THEN "inline" ELSE "fetch"
  ELSE "none"

\* The branch that never looks at the inline value: a path is always fetched.
ImportMapBranch_PathFetched(a) ==
  IF IsSome(a.import_map_path) THEN "fetch"
  ELSE IF IsSome(a.import_map) THEN "value_without_path"
  ELSE "none"

\* lines 79, 82, 98, 100: which of the four combinations of importMapPath and
\* importMap the request is
ImportMapBranch(a) ==
  IF IsSome(a.import_map_path)
    THEN IF IsSome(a.import_map) THEN "inline" ELSE "fetch"
  ELSE IF IsSome(a.import_map) THEN "value_without_path"
  ELSE "none"

\* ResolveImportMap that resolves the path only when it has to fetch it: an
\* inline value is parsed with the path as the caller wrote it.
ResolveImportMap_InlinePathUnresolved(st) ==
  LET a == Unwrap(st.decoded)
      branch == ImportMapBranch(a)
  IN IF branch = "inline"
       THEN LET import_map_str == Unwrap(a.import_map_path)
                text == to_string(Unwrap(a.import_map))
                p == from_json(import_map_str, text)
                s2 == [Logged(st, "ImportMap::from_json", p.ok) EXCEPT
                         !.import_map_specifier = Some(import_map_str),
                         !.parsed = Append(@, text)]
            IN IF p.ok
                 THEN [s2 EXCEPT !.pc = "builder",
                                 !.maybe_import_map = Some(Some(p.value))]
               ELSE Fail(s2, p.error)
     ELSE IF branch = "fetch"
       THEN LET import_map_str == Unwrap(a.import_map_path)
                r == resolve_url_or_path(import_map_str)
                s1 == Logged(st, "resolve_import_map", r.ok)
            IN IF ~r.ok
                 THEN Fail(s1, context(r.error, <<"Bad URL (", import_map_str,
                                                  ") for import map.">>))
               ELSE [s1 EXCEPT !.pc = "fetch_import_map",
                               !.import_map_specifier = Some(r.value)]
     ELSE IF branch = "value_without_path"
       THEN Fail(Logged(st, "import_map_without_path", FALSE),
                 generic_error(<<"An importMap was specified, but no importMapPath was provided, which is required.">>))
     ELSE [st EXCEPT !.pc = "builder", !.maybe_import_map = Some(None)]

\* lines 79-83 and 97-102: the import map, up to the fetch
ResolveImportMap(st) ==
  LET a == Unwrap(st.decoded)
      branch == ImportMapBranch(a)
  IN IF branch \in {"inline", "fetch"}
       THEN LET import_map_str == Unwrap(a.import_map_path)
                r == resolve_url_or_path(import_map_str)
                s1 == Logged(st, "resolve_import_map", r.ok)
            IN IF ~r.ok
                 THEN Fail(s1, context(r.error, <<"Bad URL (", import_map_str,
                                                  ") for import map.">>))
               ELSE IF branch = "inline"
                 THEN LET text == to_string(Unwrap(a.import_map))
                          p == from_json(r.value, text)
                          s2 == [Logged(s1, "ImportMap::from_json", p.ok) EXCEPT
                                   !.import_map_specifier = Some(r.value),
                                   !.parsed = Append(@, text)]
                      IN IF p.ok
                           THEN [s2 EXCEPT !.pc = "builder",
                                           !.maybe_import_map = Some(Some(p.value))]
                         ELSE Fail(s2, p.error)
               ELSE [s1 EXCEPT !.pc = "fetch_import_map",
                               !.import_map_specifier = Some(r.value)]
     ELSE IF branch = "value_without_path"
       THEN Fail(Logged(st, "import_map_without_path", FALSE),
                 generic_error(<<"An importMap was specified, but no importMapPath was provided, which is required.">>))
     ELSE [st EXCEPT !.pc = "builder", !.maybe_import_map = Some(None)]

\* FetchImportMap with the fetch's error dropped: the call goes on without an
\* import map.
FetchImportMap_FailureDropped(st, content, after) ==
  LET import_map_specifier == Unwrap(st.import_map_specifier)
      perms == Unwrap(st.runtime_permissions)
      file == file_fetcher_fetch(import_map_specifier, perms, content)
      s == [Logged(st, "file_fetcher.fetch", file.ok) EXCEPT
              !.runtime_permissions = Some(after),
              !.file = IF file.ok THEN Some(file.value) ELSE None,
              !.checked = Append(@, <<"import_map", import_map_specifier>>),
              !.fetched = IF import_map_specifier \in perms
                            THEN Append(@, <<"import_map", import_map_specifier>>)
                          ELSE @]
  IN IF ~file.ok
       THEN [s EXCEPT !.pc = "builder", !.maybe_import_map = Some(None)]
     ELSE LET p == from_json(import_map_specifier, file.value.source)
              s1 == [Logged(s, "ImportMap::from_json", p.ok) EXCEPT
                       !.parsed = Append(@, file.value.source)]
          IN IF p.ok
               THEN [s1 EXCEPT !.pc = "builder",
                               !.maybe_import_map = Some(Some(p.value))]
             ELSE Fail(s1, p.error)

\* FetchImportMap on permissions the FetchHandler shares: what the fetch
\* writes shows in the handler's two grants.
FetchImportMap_GrantsAliased(st, content, after) ==
  LET import_map_specifier == Unwrap(st.import_map_specifier)
      perms == Unwrap(st.runtime_permissions)
      file == file_fetcher_fetch(import_map_specifier, perms, content)
      h == Unwrap(st.handler)
      s == [Logged(st, "file_fetcher.fetch", file.ok) EXCEPT
              !.runtime_permissions = Some(after),
              !.handler = IF h.kind = "FetchHandler"
                            THEN Some([h EXCEPT !.root_permissions = Some(after),
                                                !.dynamic_permissions = Some(after)])
                          ELSE @,
              !.file = IF file.ok THEN Some(file.value) ELSE None,
              !.checked = Append(@, <<"import_map", import_map_specifier>>),
              !.fetched = IF import_map_specifier \in perms
                            THEN Append(@, <<"import_map", import_map_specifier>>)
                          ELSE @]
  IN IF ~file.ok
       THEN Fail(s, generic_error(<<"Unable to load '", import_map_specifier,
                                    "' import map: ", file.error.class>>))
     ELSE LET p == from_json(import_map_specifier, file.value.source)
              s1 == [Logged(s, "ImportMap::from_json", p.ok) EXCEPT
                       !.parsed = Append(@, file.value.source)]
          IN IF p.ok
               THEN [s1 EXCEPT !.pc = "builder",
                               !.maybe_import_map = Some(Some(p.value))]
             ELSE Fail(s1, p.error)

\* lines 85-96: the awaited fetch of the import map and its parse
FetchImportMap(st, content, after) ==
  LET import_map_specifier == Unwrap(st.import_map_specifier)
      perms == Unwrap(st.runtime_permissions)
      file == file_fetcher_fetch(import_map_specifier, perms, content)
      s == [Logged(st, "file_fetcher.fetch", file.ok) EXCEPT
              !.runtime_permissions = Some(after),
              !.file = IF file.ok THEN Some(file.value) ELSE None,
              !.checked = Append(@, <<"import_map", import_map_specifier>>),
              !.fetched = IF import_map_specifier \in perms
                            THEN Append(@, <<"import_map", import_map_specifier>>)
                          ELSE @]
  IN IF ~file.ok
       THEN Fail(s, generic_error(<<"Unable to load '", import_map_specifier,
                                    "' import map: ", file.error.class>>))
     ELSE LET p == from_json(import_map_specifier, file.value.source)
              s1 == [Logged(s, "ImportMap::from_json", p.ok) EXCEPT
                       !.parsed = Append(@, file.value.source)]
          IN IF p.ok
               THEN [s1 EXCEPT !.pc = "builder",
                               !.maybe_import_map = Some(Some(p.value))]
             ELSE Fail(s1, p.error)

\* GraphBuilder::new(handler, maybe_import_map, maybe_lockfile)
GraphBuilder_new(handler, maybe_import_map) ==
  [handler |-> handler, maybe_import_map |-> maybe_import_map,
   graph |-> [roots |-> <<>>, errors |-> <<>>, maybe_ignored_options |-> None]]

\* line 103
NewGraphBuilder(st) ==
  [Logged(st, "GraphBuilder::new", TRUE) EXCEPT
     !.pc = "resolve_root",
     !.builder = Some(GraphBuilder_new(Unwrap(st.handler),
                                        Unwrap(st.maybe_import_map)))]

\* ResolveRoot without the `?`: a root that cannot be resolved is added as the
\* caller wrote it.
ResolveRoot_Unchecked(st) ==
  LET raw == Unwrap(st.decoded).root_specifier
      r == resolve_url_or_path(raw)
      s == Logged(st, "resolve_root", r.ok)
  IN [s EXCEPT !.pc = "add",
               !.root_specifier = Some(IF r.ok THEN r.value ELSE raw)]

\* ResolveRoot that reports a root it cannot resolve the way a failed add is
\* reported.
ResolveRoot_Normalized(st) ==
  LET raw == Unwrap(st.decoded).root_specifier
      r == resolve_url_or_path(raw)
      s == Logged(st, "resolve_root", r.ok)
  IN IF r.ok THEN [s EXCEPT !.pc = "add", !.root_specifier = Some(r.value)]
     ELSE Fail(s, type_error(<<"Unable to handle the given specifier: ", raw>>))

\* line 104
ResolveRoot(st) ==
  LET r == resolve_url_or_path(Unwrap(st.decoded).root_specifier)
      s == Logged(st, "resolve_root", r.ok)
  IN IF r.ok THEN [s EXCEPT !.pc = "add", !.root_specifier = Some(r.value)]
     ELSE Fail(s, r.error)


\* The graph-level errors a build can leave in the graph (a dependency that
\* could not be loaded), and the findings an emission can report.
GraphErrorIds == {"dep1", "dep2"}
DiagnosticCodes == {"TS2322", "TS2345"}
GraphErrorSeqs == SeqUpTo(GraphErrorIds, MaxGraphErrors)
Diagnostic(code, origin) == [code |-> code, origin |-> origin]
DiagnosticSeqs ==
  SeqUpTo({Diagnostic(d, "tsc") : d \in DiagnosticCodes}, MaxDiagnostics)

\* SpecifierHandler::fetch of the root: the MemoryHandler looks the specifier
\* up in its sources; the FetchHandler checks the grant that is_dynamic
\* selects and fetches.  Gives the result and the checks and fetches made.
handler_fetch(handler, specifier, is_dynamic, content) ==
  IF handler.kind = "MemoryHandler"
    THEN [result |-> IF specifier \in DOMAIN handler.sources
                       THEN Ok([specifier |-> specifier,
                                source |-> handler.sources[specifier]])
                     ELSE Err(custom_error("NotFound",
                                           <<"cannot find: ", specifier>>)),
          checked |-> <<>>, fetched |-> <<>>]
  ELSE LET grant == IF is_dynamic THEN Unwrap(handler.dynamic_permissions)
                    ELSE Unwrap(handler.root_permissions)
       IN [result |-> file_fetcher_fetch(specifier, grant, content),
           checked |-> << <<"add", specifier>> >>,
           fetched |-> IF specifier \in grant THEN << <<"add", specifier>> >>
                       ELSE <<>>]

\* GraphBuilder::add(specifier, is_dynamic): fetches the root through the
\* handler; errors met below the root stay in the graph.
GraphBuilder_add(builder, specifier, is_dynamic, content, errors) ==
  LET f == handler_fetch(builder.handler, specifier, is_dynamic, content)
  IN [result |-> IF f.result.ok
                   THEN Ok([builder EXCEPT !.graph.roots = Append(@, specifier),
                                           !.graph.errors = errors])
                 ELSE Err(f.result.error),
      checked |-> f.checked, fetched |-> f.fetched]

\* AddRoot that names the cause: the class of the error add returned is put
\* after the specifier.
AddRoot_CauseReported(st, content, errors) ==
  LET root_specifier == Unwrap(st.root_specifier)
      r == GraphBuilder_add(Unwrap(st.builder), root_specifier, FALSE,
                            content, errors)
      s == [Logged(st, "add", r.result.ok) EXCEPT !.checked = @ \o r.checked,
                                                 !.fetched = @ \o r.fetched]
  IN IF r.result.ok
       THEN [s EXCEPT !.pc = "analyze", !.builder = Some(r.result.value)]
     ELSE Fail(s, type_error(<<"Unable to handle the given specifier: ",
                               root_specifier, r.result.error.class>>))

\* AddRoot that tries again: after a failed add the call is still at add.
AddRoot_Retried(st, content, errors) ==
  LET root_specifier == Unwrap(st.root_specifier)
      r == GraphBuilder_add(Unwrap(st.builder), root_specifier, FALSE,
                            content, errors)
      s == [Logged(st, "add", r.result.ok) EXCEPT !.checked = @ \o r.checked,
                                                 !.fetched = @ \o r.fetched]
  IN IF r.result.ok
       THEN [s EXCEPT !.pc = "analyze", !.builder = Some(r.result.value)]
     ELSE s

\* AddRoot without the `?`: a failed add is dropped and the call goes on.
AddRoot_ErrorDropped(st, content, errors) ==
  LET root_specifier == Unwrap(st.root_specifier)
      r == GraphBuilder_add(Unwrap(st.builder), root_specifier, FALSE,
                            content, errors)
      s == [Logged(st, "add", r.result.ok) EXCEPT !.checked = @ \o r.checked,
                                                 !.fetched = @ \o r.fetched]
  IN IF r.result.ok
       THEN [s EXCEPT !.pc = "analyze", !.builder = Some(r.result.value)]
     ELSE [s EXCEPT !.pc = "analyze"]

\* lines 105-110
AddRoot(st, content, errors) ==
  LET root_specifier == Unwrap(st.root_specifier)
      r == GraphBuilder_add(Unwrap(st.builder), root_specifier, FALSE,
                            content, errors)
      s == [Logged(st, "add", r.result.ok) EXCEPT !.checked = @ \o r.checked,
                                     !.fetched = @ \o r.fetched]
  IN IF r.result.ok
       THEN [s EXCEPT !.pc = "analyze", !.builder = Some(r.result.value)]
     ELSE Fail(s, type_error(<<"Unable to handle the given specifier: ",
                               root_specifier>>))

\* GraphBuilder::analyze_compiler_options(maybe_compiler_options): an option
\* the compiler does not take is noted as ignored, a bad value is an error.
analyze_compiler_options(builder, maybe_compiler_options) ==
  IF maybe_compiler_options = Some("jsx:1")
    THEN Err(custom_error("TypeError", <<"invalid compiler option value">>))
  ELSE IF maybe_compiler_options = Some("outDir")
    THEN Ok([builder EXCEPT !.graph.maybe_ignored_options = Some(<<"outDir">>)])
  ELSE Ok(builder)

\* lines 111-113
AnalyzeCompilerOptions(st) ==
  LET r == analyze_compiler_options(Unwrap(st.builder),
                                    Unwrap(st.decoded).compiler_options)
      s == [Logged(st, "analyze_compiler_options", r.ok) EXCEPT
              !.analyzed_with = Some(Unwrap(st.decoded).compiler_options)]
  IN IF r.ok THEN [s EXCEPT !.pc = "bundle_type", !.builder = Some(r.value)]
     ELSE Fail(s, r.error)

\* MapBundleType with the two arms of the match swapped.
MapBundleType_Swapped(st) ==
  LET bundle == Unwrap(st.decoded).bundle
  IN [st EXCEPT
        !.pc = "get_graph",
        !.bundle_type =
          Some(IF bundle = Some("module") THEN "BundleType::Classic"
               ELSE IF bundle = Some("classic") THEN "BundleType::Module"
               ELSE "BundleType::None")]

\* lines 114-118
MapBundleType(st) ==
  LET bundle == Unwrap(st.decoded).bundle
  IN [st EXCEPT
        !.pc = "get_graph",
        !.bundle_type =
          Some(IF bundle = Some("module") THEN "BundleType::Module"
               ELSE IF bundle = Some("classic") THEN "BundleType::Classic"
               ELSE "BundleType::None")]

\* Graph::get_errors
get_errors(graph) == graph.errors

\* lines 119-121
GetGraph(st, log_level) ==
  LET graph == Unwrap(st.builder).graph
  IN [Logged(Logged(st, "get_graph", TRUE), "get_errors", TRUE) EXCEPT
        !.pc = "emit",
        !.graph = Some(graph),
        !.debug = Some(log_level = Some("Debug")),
        !.graph_errors = Some(get_errors(graph))]

\* What the emission of a graph can come to: a fatal error, or files with
\* the findings of the type check.
EmitOutcomes == {None} \cup {Some(d) : d \in DiagnosticSeqs}

\* Graph::emit(options): without `check` nothing is type checked and nothing
\* is reported.
Graph_emit(graph, options, outcome) ==
  IF IsNone(outcome)
    THEN Err(custom_error("EmitError", <<"emit failed">>))
  ELSE Ok([files |-> IF options.bundle_type = "BundleType::None"
                       THEN [r \in {graph.roots[i] : i \in 1..Len(graph.roots)}
                               |-> "emitted"]
                     ELSE ("deno:///bundle.js" :> options.bundle_type),
           result_info |->
             [diagnostics |-> IF options.check THEN Unwrap(outcome) ELSE <<>>,
              maybe_ignored_options |-> graph.maybe_ignored_options,
              stats |-> <<"Files", Len(graph.roots)>>]])

\* The Option<bool> of `check`, true when absent.
unwrap_or(o, default) == IF IsSome(o) THEN Unwrap(o) ELSE default

\* Emit with `check` off when the request does not say.
Emit_CheckDefaultOff(st, outcome) ==
  LET options == [bundle_type |-> Unwrap(st.bundle_type),
                  check |-> unwrap_or(Unwrap(st.decoded).check, FALSE),
                  debug |-> Unwrap(st.debug),
                  maybe_user_config |-> Unwrap(st.decoded).compiler_options]
      r == Graph_emit(Unwrap(st.graph), options, outcome)
      s == [Logged(st, "emit", r.ok) EXCEPT !.emit_options = Some(options)]
  IN IF r.ok THEN [s EXCEPT !.pc = "extend", !.emitted = Some(r.value)]
     ELSE Fail(s, r.error)

\* Emit that answers a failed emission with what it has: the graph errors
\* as diagnostics, and no files.
Emit_PartialOnFailure(st, outcome) ==
  LET options == [bundle_type |-> Unwrap(st.bundle_type),
                  check |-> unwrap_or(Unwrap(st.decoded).check, TRUE),
                  debug |-> Unwrap(st.debug),
                  maybe_user_config |-> Unwrap(st.decoded).compiler_options]
      r == Graph_emit(Unwrap(st.graph), options, outcome)
      s == [Logged(st, "emit", r.ok) EXCEPT !.emit_options = Some(options)]
  IN IF r.ok THEN [s EXCEPT !.pc = "extend", !.emitted = Some(r.value)]
     ELSE [s EXCEPT !.pc = "Done",
                    !.result = Some(Ok([diagnostics |-> Unwrap(st.graph_errors)]))]

\* Emit that takes an emission with findings for a failed one.
Emit_DiagnosticsFatal(st, outcome) ==
  LET options == [bundle_type |-> Unwrap(st.bundle_type),
                  check |-> unwrap_or(Unwrap(st.decoded).check, TRUE),
                  debug |-> Unwrap(st.debug),
                  maybe_user_config |-> Unwrap(st.decoded).compiler_options]
      r == Graph_emit(Unwrap(st.graph), options, outcome)
      s == [Logged(st, "emit", r.ok) EXCEPT !.emit_options = Some(options)]
  IN IF r.ok /\ r.value.result_info.diagnostics = <<>>
       THEN [s EXCEPT !.pc = "extend", !.emitted = Some(r.value)]
     ELSE Fail(s, custom_error("EmitError", <<"emit failed">>))

\* lines 122-127
Emit(st, outcome) ==
  LET options == [bundle_type |-> Unwrap(st.bundle_type),
                  check |-> unwrap_or(Unwrap(st.decoded).check, TRUE),
                  debug |-> Unwrap(st.debug),
                  maybe_user_config |-> Unwrap(st.decoded).compiler_options]
      r == Graph_emit(Unwrap(st.graph), options, outcome)
      s == [Logged(st, "emit", r.ok) EXCEPT !.emit_options = Some(options)]
  IN IF r.ok THEN [s EXCEPT !.pc = "extend", !.emitted = Some(r.value)]
     ELSE Fail(s, r.error)

\* Diagnostics::extend_graph_errors: each graph error becomes a diagnostic,
\* added at the end.
extend_graph_errors(diagnostics, errors) ==
  diagnostics \o [i \in 1..Len(errors) |-> Diagnostic(errors[i], "graph")]

\* The merge the other way round: the graph errors first.
MergeDiagnostics_GraphErrorsFirst(diagnostics, graph_errors) ==
  extend_graph_errors(<<>>, graph_errors) \o diagnostics

\* line 128
MergeDiagnostics(diagnostics, graph_errors) ==
  extend_graph_errors(diagnostics, graph_errors)

\* lines 130-135
ResultJson(files, result_info) ==
  [diagnostics |-> result_info.diagnostics,
   files |-> files,
   ignoredOptions |-> result_info.maybe_ignored_options,
   stats |-> result_info.stats]

\* lines 128-135
Finish(st) ==
  LET e == Unwrap(st.emitted)
      result_info == [e.result_info EXCEPT
                        !.diagnostics =
                          MergeDiagnostics(@, Unwrap(st.graph_errors))]
  IN [Logged(st, "extend_graph_errors", TRUE) EXCEPT
        !.pc = "Done",
        !.result = Some(Ok(ResultJson(e.files, result_info)))]

\* ------------------------------------------------------------ actions
At(c, pc) == calls[c].pc = pc
\* Step with one provider for all calls: the handler of the call that steps
\* replaces the handler of every other call in flight that has one.
Step_HandlerShared(c, st) ==
  /\ calls' = [d \in Calls |->
                 IF d = c THEN st
                 ELSE IF IsSome(st.handler) /\ IsSome(calls[d].handler)
                         /\ calls[d].pc \notin {"Done", "Error"}
                   THEN [calls[d] EXCEPT !.handler = st.handler]
                 ELSE calls[d]]
  /\ UNCHANGED state

Step(c, st) == calls' = [calls EXCEPT ![c] = st] /\ UNCHANGED state

OpEmit(c) == At(c, "idle") /\ \E args \in ArgValues : Step(c, Invoke(calls[c], args))
DoCheckUnstable(c) ==
  At(c, "check_unstable") /\ Step(c, CheckUnstable(calls[c], state.unstable))
DoDecodeArgs(c) == At(c, "decode") /\ Step(c, DecodeArgs(calls[c]))
DoBorrowState(c) ==
  At(c, "borrow") /\ Step(c, BorrowState(calls[c], state.permissions))
DoSelectHandler(c) ==
  At(c, "handler") /\ \E cache_ok \in BOOLEAN : Step(c, SelectHandler(calls[c], cache_ok))
DoResolveImportMap(c) == At(c, "import_map") /\ Step(c, ResolveImportMap(calls[c]))
DoFetchImportMap(c) ==
  At(c, "fetch_import_map")
    /\ \E content \in ImportMapFiles,
          after \in PermissionsAfterFetch(Unwrap(calls[c].runtime_permissions),
                                          Unwrap(calls[c].import_map_specifier)) :
         Step(c, FetchImportMap(calls[c], content, after))
DoNewGraphBuilder(c) == At(c, "builder") /\ Step(c, NewGraphBuilder(calls[c]))
DoResolveRoot(c) == At(c, "resolve_root") /\ Step(c, ResolveRoot(calls[c]))
DoAddRoot(c) ==
  At(c, "add")
    /\ \E content \in ModuleFiles, errors \in GraphErrorSeqs :
         Step(c, AddRoot(calls[c], content, errors))
DoAnalyzeCompilerOptions(c) ==
  At(c, "analyze") /\ Step(c, AnalyzeCompilerOptions(calls[c]))
DoMapBundleType(c) == At(c, "bundle_type") /\ Step(c, MapBundleType(calls[c]))
DoGetGraph(c) == At(c, "get_graph") /\ Step(c, GetGraph(calls[c], state.log_level))
DoEmit(c) ==
  At(c, "emit") /\ \E outcome \in EmitOutcomes : Step(c, Emit(calls[c], outcome))
DoFinish(c) == At(c, "extend") /\ Step(c, Finish(calls[c]))

Run(c) ==
  \/ OpEmit(c)
  \/ DoCheckUnstable(c)
  \/ DoDecodeArgs(c)
  \/ DoBorrowState(c)
  \/ DoSelectHandler(c)
  \/ DoResolveImportMap(c)
  \/ DoFetchImportMap(c)
  \/ DoNewGraphBuilder(c)
  \/ DoResolveRoot(c)
  \/ DoAddRoot(c)
  \/ DoAnalyzeCompilerOptions(c)
  \/ DoMapBundleType(c)
  \/ DoGetGraph(c)
  \/ DoEmit(c)
  \/ DoFinish(c)

\* The host makes one call of the op.
Next == Run(1)

Spec == Init /\ [][Next]_vars

\* ------------------------------------------------- calls in flight together
\* op_emit is registered as an async op: the runtime holds one future per
\* call and polls them on one thread, so a call runs without interruption
\* from one `.await` to the next, and other calls run while it is suspended.
Awaits == {"fetch_import_map", "add", "analyze"}

\* The requests of the calls in flight: a root fetched under the host's
\* permissions after a fetched import map, the same root looked up in
\* `sources`, which do not have it, and a root that is in `sources`.
ConcurrentRequests ==
  {r \in WellFormedArgs :
     /\ r.bundle = None /\ r.check = None /\ r.compilerOptions = None
     /\ r.importMap = None
     /\ \/ /\ r.rootSpecifier = Some("https://x/b.ts")
           /\ r.sources = None
           /\ r.importMapPath = Some("/im.json")
        \/ /\ r.rootSpecifier \in {Some("https://x/b.ts"), Some("/a.ts")}
           /\ r.sources = Some(SpecA :> "export {}")
           /\ r.importMapPath = None}

\* What the collaborators answer to one call: whether the cache directory
\* opens, the import-map file, whether its fetch records a grant in the
\* permissions it is lent, the root's module, the errors below the root, the
\* emission.
ConcurrentAnswers ==
  [cache_ok : {TRUE},
   import_map_file : {Some("{imports}")},
   granted : {TRUE},
   module_file : ModuleFiles,
   errors : {<<>>},
   outcome : {Some(<<>>)}]

\* The statement a call is at, run with the answers of the call.
Statement(st, host) ==
  LET a == Unwrap(st.answers)
  IN CASE st.pc = "check_unstable" -> CheckUnstable(st, host.unstable)
       [] st.pc = "decode" -> DecodeArgs(st)
       [] st.pc = "borrow" -> BorrowState(st, host.permissions)
       [] st.pc = "handler" -> SelectHandler(st, a.cache_ok)
       [] st.pc = "import_map" -> ResolveImportMap(st)
       [] st.pc = "fetch_import_map" ->
            FetchImportMap(st, a.import_map_file,
                           IF a.granted
                             THEN Unwrap(st.runtime_permissions)
                                    \cup {Unwrap(st.import_map_specifier)}
                           ELSE Unwrap(st.runtime_permissions))
       [] st.pc = "builder" -> NewGraphBuilder(st)
       [] st.pc = "resolve_root" -> ResolveRoot(st)
       [] st.pc = "add" -> AddRoot(st, a.module_file, a.errors)
       [] st.pc = "analyze" -> AnalyzeCompilerOptions(st)
       [] st.pc = "bundle_type" -> MapBundleType(st)
       [] st.pc = "get_graph" -> GetGraph(st, host.log_level)
       [] st.pc = "emit" -> Emit(st, a.outcome)
       [] st.pc = "extend" -> Finish(st)

\* A poll of the future: statements run until the call ends or is at one of
\* `stops`.  (The state after a statement is bound by a quantifier, so that
\* it is computed once and not once for every use further down.)
RECURSIVE Poll(_, _, _)
Poll(st, host, stops) ==
  IF st.pc \in stops \cup {"Done", "Error"} THEN st
  ELSE CHOOSE end \in {Poll(next, host, stops) : next \in {Statement(st, host)}} :
         TRUE

\* The call made with nothing else in flight: polled until it ends.
RunAlone(host, args, answers) ==
  Poll([Invoke(IdleCall, args) EXCEPT !.answers = Some(answers)], host, {})

\* The first poll of a call: it runs up to its first await.
Call(c) ==
  /\ At(c, "idle")
  /\ \E args \in ConcurrentRequests, answers \in ConcurrentAnswers :
       Step(c, Poll([Invoke(calls[c], args) EXCEPT !.answers = Some(answers)],
                    state, Awaits))

\* The awaited collaborator has returned and the future is polled again: the
\* call runs from the await it is at up to the next one.
Resume(c, await) ==
  /\ At(c, await)
  /\ Step(c, Poll(Statement(calls[c], state), state, Awaits))

ResumeAfterFetch(c) == Resume(c, "fetch_import_map")
ResumeAfterAdd(c) == Resume(c, "add")
ResumeAfterAnalyze(c) == Resume(c, "analyze")

Resumed(c) ==
  \/ ResumeAfterFetch(c)
  \/ ResumeAfterAdd(c)
  \/ ResumeAfterAnalyze(c)

\* The host of the calls in flight: the unstable flag on, every specifier
\* allowed or the import map only.
InitConcurrent ==
  /\ state \in [unstable : {TRUE}, permissions : {Specifiers, {SpecM}},
                log_level : {None}]
  /\ calls = [c \in Calls |-> IdleCall]

NextConcurrent == \E c \in Calls : Call(c) \/ Resumed(c)

SpecConcurrent == InitConcurrent /\ [][NextConcurrent]_vars

\* The runtime polls a future whose awaited collaborator has returned.
FairSpecConcurrent ==
  SpecConcurrent /\ \A c \in Calls : WF_vars(Resumed(c))

\* ---------------------------------------------------------------- properties
Terminal(st) == st.pc \in {"Done", "Error"}
Last(q) == q[Len(q)]
Position(st, op) == CHOOSE i \in 1..Len(st.log) : st.log[i].op = op

FeatureDisabled == check_unstable2(FALSE, "Deno.emit").error

Rank(op) ==
  CASE op = "check_unstable2" -> 1
    [] op = "from_value" -> 2
    [] op = "borrow_permissions" -> 3
    [] op \in {"MemoryHandler::new", "FetchHandler::new"} -> 4
    [] op \in {"resolve_import_map", "import_map_without_path"} -> 5
    [] op = "file_fetcher.fetch" -> 6
    [] op = "ImportMap::from_json" -> 7
    [] op = "GraphBuilder::new" -> 8
    [] op = "resolve_root" -> 9
    [] op = "add" -> 10
    [] op = "analyze_compiler_options" -> 11
    [] op = "get_graph" -> 12
    [] op = "get_errors" -> 13
    [] op = "emit" -> 14
    [] op = "extend_graph_errors" -> 15

\* The calls every request makes on its way to a result, in order.
MainLine ==
  <<{"check_unstable2"}, {"from_value"}, {"borrow_permissions"},
    {"MemoryHandler::new", "FetchHandler::new"}, {"GraphBuilder::new"},
    {"resolve_root"}, {"add"}, {"analyze_compiler_options"}, {"get_graph"},
    {"get_errors"}, {"emit"}, {"extend_graph_errors"}>>

HasAny(st, ops) == \E op \in ops : Has(st, op)
HasAnyOk(st, ops) == \E op \in ops : HasOk(st, op)

\* C2: the stages of a call run in the order gate, handler selection,
\* import-map resolution, root resolution, add, analyze, emit, merge, each at
\* most once, and a stage starts only if every earlier one succeeded: a call
\* that failed is the last one made, and it leaves the call in Error.
C2_FailFastOrder ==
  \A c \in Calls :
    LET st == calls[c]
    IN /\ \A i \in 1..(Len(st.log) - 1) :
            Rank(st.log[i].op) < Rank(st.log[i + 1].op)
       /\ \A i \in 1..Len(st.log) :
            ~st.log[i].ok => /\ i = Len(st.log)
                             /\ st.pc = "Error"
                             /\ IsSome(st.result) /\ ~Unwrap(st.result).ok
       /\ st.pc = "Error" => Len(st.log) > 0 /\ ~Last(st.log).ok
       /\ \A k \in 2..Len(MainLine) :
            HasAny(st, MainLine[k]) => HasAnyOk(st, MainLine[k - 1])
       /\ Has(st, "file_fetcher.fetch") => HasOk(st, "resolve_import_map")
       /\ Has(st, "ImportMap::from_json") => HasOk(st, "resolve_import_map")
       /\ HasAny(st, {"resolve_import_map", "import_map_without_path"}) =>
            HasAnyOk(st, MainLine[4])

\* A call whose add failed after a fetched import map: analyze and emit were
\* never called.
C2_Witness ==
  \E c \in Calls :
    /\ calls[c].pc = "Error"
    /\ calls[c].failed_at = Some("add")
    /\ HasOk(calls[c], "file_fetcher.fetch")
    /\ ~Has(calls[c], "analyze_compiler_options")
    /\ ~Has(calls[c], "emit")

ResultKeys == {"diagnostics", "files", "ignoredOptions", "stats"}

\* C3: a call returns nothing before it ends, and then either an error and
\* nothing else, or a result with all four fields; a result is returned only
\* when every call made, emit included, succeeded.
C3_NoPartialResult ==
  \A c \in Calls :
    LET st == calls[c]
    IN /\ IsSome(st.result) <=> Terminal(st)
       /\ IsSome(st.result) =>
            LET r == Unwrap(st.result)
            IN IF r.ok
                 THEN /\ st.pc = "Done"
                      /\ DOMAIN r = {"ok", "value"}
                      /\ DOMAIN r.value = ResultKeys
                      /\ \A i \in 1..Len(st.log) : st.log[i].ok
                      /\ \A k \in 1..Len(MainLine) : HasAnyOk(st, MainLine[k])
               ELSE /\ st.pc = "Error"
                    /\ DOMAIN r = {"ok", "error"}
                    /\ ~Last(st.log).ok

\* An emission that failed after add and analyze succeeded: the call returns
\* the error alone.
C3_Witness ==
  \E c \in Calls :
    /\ calls[c].failed_at = Some("emit")
    /\ HasOk(calls[c], "add")
    /\ Unwrap(calls[c].graph_errors) # <<>>
    /\ DOMAIN Unwrap(calls[c].result) = {"ok", "error"}

\* The request of a call that was made, as the caller wrote it.
Request(st) == Unwrap(st.args)
Made(st) == IsSome(st.args) /\ Request(st) \in WellFormedArgs
WithSources(st) == Made(st) /\ IsSome(Request(st).sources)
WithoutSources(st) == Made(st) /\ IsNone(Request(st).sources)
PathOnly(st) ==
  Made(st) /\ IsSome(Request(st).importMapPath) /\ IsNone(Request(st).importMap)
PathAndValue(st) ==
  Made(st) /\ IsSome(Request(st).importMapPath) /\ IsSome(Request(st).importMap)
ValueOnly(st) ==
  Made(st) /\ IsNone(Request(st).importMapPath) /\ IsSome(Request(st).importMap)
Root(st) == resolve_url_or_path(Unwrap(Request(st).rootSpecifier))
UnableToHandle(root) ==
  type_error(<<"Unable to handle the given specifier: ", root>>)

\* C4 as stated: with `sources` present, nothing outside the mapping is
\* fetched externally at any stage of the call, the import-map stage included.
C4_NothingOutsideSourcesFetched ==
  \A c \in Calls :
    LET st == calls[c]
    IN WithSources(st) =>
         \A i \in 1..Len(st.fetched) :
           st.fetched[i][2] \in DOMAIN Unwrap(Request(st).sources)

\* C4, amended: with `sources` present the handler is the MemoryHandler seeded
\* with exactly the mapping, adding the root fetches nothing and checks no
\* permission, and a root outside the mapping fails with the uniform "Unable
\* to handle the given specifier" error; the one external fetch such a call
\* can make is the import map's, through the file fetcher, when importMapPath
\* is given without importMap.
C4_OnlyImportMapFetchedWithSources ==
  \A c \in Calls :
    LET st == calls[c]
    IN WithSources(st) =>
         /\ Len(st.fetched) <= 1
         /\ \A i \in 1..Len(st.fetched) :
              /\ PathOnly(st)
              /\ st.fetched[i] = <<"import_map", Unwrap(st.import_map_specifier)>>
         /\ \A i \in 1..Len(st.checked) : st.checked[i][1] = "import_map"
         /\ IsSome(st.handler) =>
              /\ Unwrap(st.handler).kind = "MemoryHandler"
              /\ Unwrap(st.handler).sources = Unwrap(Request(st).sources)
         /\ Has(st, "add") =>
              IF Root(st).value \in DOMAIN Unwrap(Request(st).sources)
                THEN HasOk(st, "add")
              ELSE /\ st.pc = "Error"
                   /\ st.result = Some(Err(UnableToHandle(Root(st).value)))

\* A call with sources that fetched its import map from outside the mapping
\* and then failed on a root that the mapping does not hold.
C4_Witness ==
  \E c \in Calls :
    /\ WithSources(calls[c])
    /\ SpecM \notin DOMAIN Unwrap(Request(calls[c]).sources)
    /\ calls[c].fetched = << <<"import_map", SpecM>> >>
    /\ calls[c].failed_at = Some("add")
    /\ calls[c].result = Some(Err(UnableToHandle(SpecB)))

\* C5: without `sources` the root is fetched under the host's permission
\* set, which is both the root grant and the dynamic-import grant of the
\* FetchHandler: a root that set denies is checked, refused, and the call
\* fails.  With `sources` no permission is checked for the root, and whether
\* add succeeds depends on the mapping alone.
C5_RootPermission ==
  \A c \in Calls :
    LET st == calls[c]
    IN /\ WithoutSources(st) =>
            /\ IsSome(st.handler) =>
                 /\ Unwrap(st.handler).kind = "FetchHandler"
                 /\ Unwrap(st.handler).root_permissions = Some(state.permissions)
                 /\ Unwrap(st.handler).dynamic_permissions = Some(state.permissions)
            /\ Has(st, "add") => Last(st.checked) = <<"add", Root(st).value>>
            /\ (Has(st, "add") /\ Root(st).value \notin state.permissions) =>
                 /\ st.pc = "Error"
                 /\ st.failed_at = Some("add")
                 /\ \A i \in 1..Len(st.fetched) : st.fetched[i][1] # "add"
            /\ st.pc = "Done" => Root(st).value \in state.permissions
       /\ WithSources(st) =>
            /\ \A i \in 1..Len(st.checked) : st.checked[i][1] # "add"
            /\ Has(st, "add") =>
                 (HasOk(st, "add") <=>
                    Root(st).value \in DOMAIN Unwrap(Request(st).sources))

\* A call without sources whose root the host's permissions deny: the add
\* checked the root and the call failed there.
C5_Witness ==
  \E c \in Calls :
    /\ WithoutSources(calls[c])
    /\ SpecA \notin state.permissions
    /\ Root(calls[c]) = Ok(SpecA)
    /\ calls[c].failed_at = Some("add")
    /\ Last(calls[c].checked) = <<"add", SpecA>>

ImportMapWithoutPath ==
  generic_error(<<"An importMap was specified, but no importMapPath was provided, which is required.">>)

\* C6: a request with importMap and no importMapPath never gets a result:
\* once the gate is passed and the handler is made, whatever the other fields
\* are, it fails with "An importMap was specified, but no importMapPath was
\* provided", and it never fetches, never makes a GraphBuilder and never
\* resolves the root.
C6_ValueWithoutPath ==
  \A c \in Calls :
    LET st == calls[c]
    IN ValueOnly(st) =>
         /\ st.pc \in {"check_unstable", "decode", "borrow", "handler",
                       "import_map", "Error"}
         /\ (st.pc = "Error" /\ IsSome(st.handler)) =>
              /\ st.result = Some(Err(ImportMapWithoutPath))
              /\ st.failed_at = Some("import_map")
         /\ st.fetched = <<>>
         /\ st.parsed = <<>>
         /\ ~Has(st, "file_fetcher.fetch")
         /\ ~Has(st, "GraphBuilder::new")
         /\ ~Has(st, "resolve_root")
         /\ IsNone(st.builder)

\* Such a request, with sources, a bundle mode and compiler options, failed
\* with the configuration error.
C6_Witness ==
  \E c \in Calls :
    /\ ValueOnly(calls[c])
    /\ calls[c].result = Some(Err(ImportMapWithoutPath))
    /\ IsSome(Request(calls[c]).sources)
    /\ IsSome(Request(calls[c]).bundle)
    /\ IsSome(Request(calls[c]).compilerOptions)

\* C7: a request with importMapPath and importMap never fetches the import
\* map: the inline value's text is parsed with the resolved path as base, so
\* the stage fails only on a bad path or a value that is no import map,
\* whatever a fetch would have done.
C7_InlineNeverFetched ==
  \A c \in Calls :
    LET st == calls[c]
        path == resolve_url_or_path(Unwrap(Request(st).importMapPath))
        text == to_string(Unwrap(Request(st).importMap))
    IN PathAndValue(st) =>
         /\ Count(st, "file_fetcher.fetch") = 0
         /\ \A i \in 1..Len(st.fetched) : st.fetched[i][1] # "import_map"
         /\ \A i \in 1..Len(st.checked) : st.checked[i][1] # "import_map"
         /\ st.pc # "fetch_import_map"
         /\ st.failed_at = Some("import_map") =>
              ~path.ok \/ ~from_json(path.value, text).ok
         /\ Has(st, "ImportMap::from_json") => st.parsed = <<text>>
         /\ IsSome(st.maybe_import_map) =>
              st.maybe_import_map =
                Some(Some([base_url |-> path.value, imports |-> text]))

\* A request with both, under permissions that deny the import map's
\* specifier, came to a result with the inline map.
C7_Witness ==
  \E c \in Calls :
    /\ PathAndValue(calls[c])
    /\ SpecM \notin state.permissions
    /\ calls[c].pc = "Done"
    /\ calls[c].maybe_import_map =
         Some(Some([base_url |-> SpecM, imports |-> "{imports}"]))

\* C8: no call fetches the import map more than once; a request with only
\* importMapPath, once the path is resolved, fetches it exactly once and
\* parses the text it fetched; when the fetch fails the call ends with "Unable
\* to load ... import map" and no GraphBuilder is made and add, analyze and
\* emit are never called.
C8_PathOnlyFetchedOnce ==
  \A c \in Calls :
    LET st == calls[c]
    IN /\ Count(st, "file_fetcher.fetch") <= 1
       /\ Has(st, "file_fetcher.fetch") => PathOnly(st)
       /\ PathOnly(st) =>
            /\ (HasOk(st, "resolve_import_map") /\ st.pc # "fetch_import_map") =>
                 Count(st, "file_fetcher.fetch") = 1
            /\ HasOk(st, "file_fetcher.fetch") =>
                 /\ st.parsed = <<Unwrap(st.file).source>>
                 /\ Unwrap(st.file).specifier = Unwrap(st.import_map_specifier)
            /\ (HasOk(st, "file_fetcher.fetch") /\ IsSome(st.maybe_import_map)) =>
                 st.maybe_import_map =
                   Some(Some([base_url |-> Unwrap(st.import_map_specifier),
                              imports |-> Unwrap(st.file).source]))
            /\ (Has(st, "file_fetcher.fetch") /\ ~HasOk(st, "file_fetcher.fetch")) =>
                 /\ st.pc = "Error"
                 /\ \E cause \in {"PermissionDenied", "NotFound"} :
                      st.result =
                        Some(Err(generic_error(
                          <<"Unable to load '", Unwrap(st.import_map_specifier),
                            "' import map: ", cause>>)))
                 /\ st.parsed = <<>>
                 /\ IsNone(st.builder)
                 /\ ~Has(st, "GraphBuilder::new")
                 /\ ~Has(st, "add")
                 /\ ~Has(st, "analyze_compiler_options")
                 /\ ~Has(st, "emit")

\* A request with only importMapPath whose fetch found nothing.
C8_Witness ==
  \E c \in Calls :
    /\ PathOnly(calls[c])
    /\ calls[c].pc = "Error"
    /\ calls[c].failed_at = Some("fetch_import_map")
    /\ SpecM \in state.permissions
    /\ calls[c].fetched = << <<"import_map", SpecM>> >>
    /\ ~HasOk(calls[c], "file_fetcher.fetch")

\* C9: the diagnostics of a result are the diagnostics of the emission, in
\* their order, and then the errors of the graph, in their order, each once;
\* the errors are read from the graph before emit is called.
C9_DiagnosticsOrder ==
  \A c \in Calls :
    LET st == calls[c]
    IN st.pc = "Done" =>
         LET d == Unwrap(st.result).value.diagnostics
             e == Unwrap(st.emitted).result_info.diagnostics
             g == Unwrap(st.builder).graph.errors
         IN /\ Len(d) = Len(e) + Len(g)
            /\ \A i \in 1..Len(e) : d[i] = e[i] /\ d[i].origin = "tsc"
            /\ \A j \in 1..Len(g) : d[Len(e) + j] = Diagnostic(g[j], "graph")
            /\ Position(st, "get_errors") < Position(st, "emit")

\* A result with two findings of the emission and two errors of the graph.
C9_Witness ==
  \E c \in Calls :
    /\ calls[c].pc = "Done"
    /\ Unwrap(calls[c].result).value.diagnostics =
         <<Diagnostic("TS2345", "tsc"), Diagnostic("TS2322", "tsc"),
           Diagnostic("dep2", "graph"), Diagnostic("dep1", "graph")>>

\* C10: findings never fail a call: once emit has returned, whatever the
\* diagnostics, the graph errors and the ignored options are, the call goes on
\* to Done and its result carries them; a call is in Error only when a call
\* it made returned a failure.
C10_DiagnosticsNotFatal ==
  \A c \in Calls :
    LET st == calls[c]
    IN /\ HasOk(st, "analyze_compiler_options") =>
            st.failed_at \in {None, Some("emit")}
       /\ IsSome(st.emitted) => st.pc \in {"extend", "Done"}
       /\ st.pc = "Error" => ~Last(st.log).ok
       /\ st.pc = "Done" =>
            LET v == Unwrap(st.result).value
            IN /\ Unwrap(st.result).ok
               /\ Len(v.diagnostics) =
                    Len(Unwrap(st.emitted).result_info.diagnostics)
                      + Len(Unwrap(st.builder).graph.errors)
               /\ v.ignoredOptions = Unwrap(st.builder).graph.maybe_ignored_options
               /\ Request(st).compilerOptions = Some("outDir") =>
                    v.ignoredOptions = Some(<<"outDir">>)

\* A result with findings of the emission, errors of the graph and an
\* ignored option.
C10_Witness ==
  \E c \in Calls :
    /\ calls[c].pc = "Done"
    /\ Unwrap(calls[c].result).ok
    /\ Unwrap(calls[c].emitted).result_info.diagnostics # <<>>
    /\ Unwrap(calls[c].builder).graph.errors # <<>>
    /\ Unwrap(calls[c].result).value.ignoredOptions = Some(<<"outDir">>)


\* The BundleType of a request's bundle mode.
BundleTypeOf(bundle) ==
  CASE bundle = None -> "BundleType::None"
    [] bundle = Some("module") -> "BundleType::Module"
    [] bundle = Some("classic") -> "BundleType::Classic"

\* C12: the bundle type emit is given is the request's bundle mode, one to
\* one: none for an absent mode, Module for "module", Classic for "classic",
\* whatever the other fields of the request are.
C12_BundleTypeMapping ==
  \A c \in Calls :
    LET st == calls[c]
    IN /\ IsSome(st.bundle_type) =>
            Unwrap(st.bundle_type) = BundleTypeOf(Request(st).bundle)
       /\ IsSome(st.emit_options) =>
            Unwrap(st.emit_options).bundle_type = BundleTypeOf(Request(st).bundle)

\* An emission asked for as a module bundle, with sources, an import map and
\* `check` off.
C12_Witness ==
  \E c \in Calls :
    /\ calls[c].pc = "Done"
    /\ Request(calls[c]).bundle = Some("module")
    /\ Unwrap(calls[c].emit_options).bundle_type = "BundleType::Module"
    /\ Request(calls[c]).check = Some(FALSE)
    /\ IsSome(Request(calls[c]).sources)
    /\ IsSome(Request(calls[c]).importMap)

\* C15: a root that cannot be resolved fails the call with the error of the
\* resolution, which is not the "Unable to handle the given specifier" error
\* of a failed add, and add is never called for it; a call that fails with
\* "Unable to handle" failed in add, with a resolved root.
C15_BadRootIsNotResolutionError ==
  \A c \in Calls :
    LET st == calls[c]
    IN /\ (Made(st) /\ ~Root(st).ok) =>
            /\ ~Has(st, "add")
            /\ IsNone(st.root_specifier)
            /\ st.pc \notin {"add", "analyze", "bundle_type", "get_graph",
                             "emit", "extend", "Done"}
            /\ Has(st, "resolve_root") =>
                 /\ st.failed_at = Some("resolve_root")
                 /\ st.result = Some(Err(Root(st).error))
            /\ \A r \in Specifiers \cup RootInputs :
                 st.result # Some(Err(UnableToHandle(r)))
       /\ (Made(st) /\ \E r \in Specifiers \cup RootInputs :
                         st.result = Some(Err(UnableToHandle(r)))) =>
            /\ st.failed_at = Some("add")
            /\ Root(st).ok
            /\ st.result = Some(Err(UnableToHandle(Root(st).value)))

\* A call with a root that is no URL, failed at the resolution after its
\* GraphBuilder was made.
C15_Witness ==
  \E c \in Calls :
    /\ Made(calls[c])
    /\ Request(calls[c]).rootSpecifier = Some("https://[bad")
    /\ calls[c].failed_at = Some("resolve_root")
    /\ Unwrap(calls[c].result).error.class = "URIError"
    /\ Has(calls[c], "GraphBuilder::new")

\* C16: emit is called at most once, with the mapped bundle type, the
\* request's `check` or true when it is absent, debug exactly when the host's
\* log level is Debug, and the request's compilerOptions as they were
\* written, which is what analyze_compiler_options was given.
C16_EmitOptions ==
  \A c \in Calls :
    LET st == calls[c]
    IN /\ Count(st, "emit") <= 1
       /\ Has(st, "emit") <=> IsSome(st.emit_options)
       /\ IsSome(st.emit_options) =>
            LET o == Unwrap(st.emit_options)
            IN /\ o.bundle_type = BundleTypeOf(Request(st).bundle)
               /\ o.check = IF Request(st).check = None THEN TRUE
                            ELSE Unwrap(Request(st).check)
               /\ o.debug = (state.log_level = Some("Debug"))
               /\ o.maybe_user_config = Request(st).compilerOptions
               /\ st.analyzed_with = Some(o.maybe_user_config)

\* An emission with `check` absent, under log level Debug, with compiler
\* options of which one is ignored.
C16_Witness ==
  \E c \in Calls :
    /\ Has(calls[c], "emit")
    /\ Request(calls[c]).check = None
    /\ state.log_level = Some("Debug")
    /\ Unwrap(calls[c].emit_options) =
         [bundle_type |-> "BundleType::Classic", check |-> TRUE, debug |-> TRUE,
          maybe_user_config |-> Some("outDir")]

BadImportMapUrl(import_map_str) ==
  context(resolve_url_or_path(import_map_str).error,
          <<"Bad URL (", import_map_str, ") for import map.">>)

\* C19: an importMapPath that cannot be resolved fails the call with "Bad URL
\* ... for import map", with and without an importMap value, before anything
\* is fetched or parsed for the import map and before a GraphBuilder is made;
\* what is fetched, and what a parsed map has as its base, is the resolved
\* path.
C19_BadImportMapPath ==
  \A c \in Calls :
    LET st == calls[c]
    IN (Made(st) /\ IsSome(Request(st).importMapPath)) =>
         LET import_map_str == Unwrap(Request(st).importMapPath)
             r == resolve_url_or_path(import_map_str)
         IN /\ ~r.ok =>
                 /\ st.pc \in {"check_unstable", "decode", "borrow", "handler",
                               "import_map", "Error"}
                 /\ (st.pc = "Error" /\ IsSome(st.handler)) =>
                      /\ st.result = Some(Err(BadImportMapUrl(import_map_str)))
                      /\ st.failed_at = Some("import_map")
                 /\ st.fetched = <<>>
                 /\ st.parsed = <<>>
                 /\ ~Has(st, "file_fetcher.fetch")
                 /\ ~Has(st, "ImportMap::from_json")
                 /\ ~Has(st, "GraphBuilder::new")
                 /\ IsNone(st.builder)
            /\ IsSome(st.import_map_specifier) =>
                 r.ok /\ st.import_map_specifier = Some(r.value)
            /\ (Has(st, "file_fetcher.fetch") \/ Has(st, "ImportMap::from_json")) =>
                 /\ HasOk(st, "resolve_import_map")
                 /\ Position(st, "resolve_import_map") < Len(st.log)
            /\ \A i \in 1..Len(st.fetched) :
                 st.fetched[i][1] = "import_map" => st.fetched[i][2] = r.value
            /\ (IsSome(st.maybe_import_map) /\ IsSome(Unwrap(st.maybe_import_map))) =>
                 Unwrap(Unwrap(st.maybe_import_map)).base_url = r.value

\* A request with an inline import map and a path that is no URL, failed with
\* the Bad URL error.
C19_Witness ==
  \E c \in Calls :
    /\ PathAndValue(calls[c])
    /\ Request(calls[c]).importMapPath = Some("https://[bad")
    /\ calls[c].result = Some(Err(BadImportMapUrl("https://[bad")))


ProviderOps == {"MemoryHandler::new", "FetchHandler::new"}

\* C14 as stated: no provider is constructed and nothing is fetched, the
\* import map included, before the root has been resolved with success.
C14_NothingBeforeRootResolution ==
  \A c \in Calls :
    LET st == calls[c]
    IN (HasAny(st, ProviderOps) \/ Has(st, "file_fetcher.fetch")
          \/ st.fetched # <<>>)
         => HasOk(st, "resolve_root")

\* C14: the root is resolved before the provider is consulted for a module:
\* add, with its permission check and its fetch, comes only after the root
\* was resolved with success, so a request with a malformed root fails
\* without add and with no module checked or fetched.  The provider, the
\* import map (with its one fetch, for a path without a value) and the
\* GraphBuilder are made before the root is resolved.
C14_RootResolvedBeforeAdd ==
  \A c \in Calls :
    LET st == calls[c]
    IN /\ Has(st, "add") =>
            /\ HasOk(st, "resolve_root")
            /\ Position(st, "resolve_root") < Position(st, "add")
       /\ \A i \in 1..Len(st.checked) :
            st.checked[i][1] = "add" => HasOk(st, "resolve_root")
       /\ \A i \in 1..Len(st.fetched) :
            st.fetched[i][1] = "add" => HasOk(st, "resolve_root")
       /\ (Made(st) /\ ~Root(st).ok) =>
            /\ ~Has(st, "add")
            /\ \A i \in 1..Len(st.checked) : st.checked[i][1] = "import_map"
            /\ \A i \in 1..Len(st.fetched) : st.fetched[i][1] = "import_map"
       /\ Has(st, "resolve_root") =>
            /\ HasAnyOk(st, ProviderOps)
            /\ Has(st, "GraphBuilder::new")
            /\ \A op \in ProviderOps \cup {"file_fetcher.fetch", "GraphBuilder::new"} :
                 Has(st, op) => Position(st, op) < Position(st, "resolve_root")

\* A request without sources, with an import-map path and a malformed root:
\* the FetchHandler was made and the import map fetched, and the call failed
\* at the root's resolution.
C14_Witness ==
  \E c \in Calls :
    /\ WithoutSources(calls[c])
    /\ ~Root(calls[c]).ok
    /\ calls[c].failed_at = Some("resolve_root")
    /\ HasOk(calls[c], "FetchHandler::new")
    /\ calls[c].fetched = << <<"import_map", SpecM>> >>


\* The two grants of a handler are the host's permission set (a handler
\* without grants, the MemoryHandler, has nothing to compare).
GrantsAre(handler, permissions) ==
  handler.kind = "FetchHandler" =>
    /\ handler.root_permissions = Some(permissions)
    /\ handler.dynamic_permissions = Some(permissions)

\* C18: no step of a call changes the host state, its permission set
\* included; the call's copy is the host's set until the import-map fetch,
\* which is the only step that can write to it, and what the fetch writes
\* reaches neither the host's set nor the two grants of the FetchHandler, in
\* the call's handler field and in its GraphBuilder.
C18_AmbientPermissionsUnchanged ==
  /\ [](\A c \in Calls :
          LET st == calls[c]
          IN /\ IsSome(st.handler) => GrantsAre(Unwrap(st.handler), state.permissions)
             /\ IsSome(st.builder) =>
                  GrantsAre(Unwrap(st.builder).handler, state.permissions)
             /\ (IsSome(st.runtime_permissions) /\ ~Has(st, "file_fetcher.fetch")) =>
                  st.runtime_permissions = Some(state.permissions)
             /\ Has(st, "file_fetcher.fetch") =>
                  Unwrap(st.runtime_permissions) \in
                    PermissionsAfterFetch(state.permissions,
                                          Unwrap(st.import_map_specifier)))
  /\ [][state' = state]_vars

\* A call without sources whose import-map fetch wrote to the call's copy,
\* and whose root was then added under the grants of the FetchHandler.
C18_Witness ==
  \E c \in Calls :
    /\ HasOk(calls[c], "file_fetcher.fetch")
    /\ calls[c].runtime_permissions # Some(state.permissions)
    /\ HasOk(calls[c], "add")
    /\ Unwrap(calls[c].builder).handler.kind = "FetchHandler"
    /\ Unwrap(calls[c].builder).handler.root_permissions = Some(state.permissions)


\* The place of a statement of op_emit in the function's text.
StageRank(pc) ==
  CASE pc = "idle" -> 0
    [] pc = "check_unstable" -> 1
    [] pc = "decode" -> 2
    [] pc = "borrow" -> 3
    [] pc = "handler" -> 4
    [] pc = "import_map" -> 5
    [] pc = "fetch_import_map" -> 6
    [] pc = "builder" -> 7
    [] pc = "resolve_root" -> 8
    [] pc = "add" -> 9
    [] pc = "analyze" -> 10
    [] pc = "bundle_type" -> 11
    [] pc = "get_graph" -> 12
    [] pc = "emit" -> 13
    [] pc = "extend" -> 14
    [] pc \in {"Done", "Error"} -> 15

Started(st) == st.pc # "idle"

\* C17: every step of a call takes it to a later statement, so no stage is
\* entered twice and none is gone back to or tried again; no collaborator is
\* called twice; a call in Done or Error takes no further step; and, the
\* collaborators returning, a call that was started reaches Done or Error.
C17_LinearAndTerminating ==
  /\ [][\A c \in Calls :
          /\ calls'[c] # calls[c] =>
               StageRank(calls'[c].pc) > StageRank(calls[c].pc)
          /\ Terminal(calls[c]) => calls'[c] = calls[c]]_vars
  /\ [](\A c \in Calls :
          \A i, j \in 1..Len(calls[c].log) :
            calls[c].log[i].op = calls[c].log[j].op => i = j)
  /\ \A c \in Calls : Started(calls[c]) ~> Terminal(calls[c])

\* Every call ended, one in Done after it was suspended at each of the three
\* awaits, one in Error.
C17_Witness ==
  /\ \A c \in Calls : Terminal(calls[c])
  /\ \E c \in Calls :
       /\ calls[c].pc = "Done"
       /\ HasOk(calls[c], "file_fetcher.fetch")
       /\ HasOk(calls[c], "add")
       /\ HasOk(calls[c], "analyze_compiler_options")
  /\ \E c \in Calls : calls[c].pc = "Error"


\* The error add returned for the root of a call that failed at add, before
\* op_emit replaced it.
AddCause(st) ==
  GraphBuilder_add(Unwrap(st.builder), Unwrap(st.root_specifier), FALSE,
                   Unwrap(st.answers).module_file,
                   Unwrap(st.answers).errors).result.error

FailedAtAdd(st) == st.pc = "Error" /\ st.failed_at = Some("add")

\* C11: a call that fails at add fails with "Unable to handle the given
\* specifier" and the resolved root, whatever error add returned; so two calls
\* with the same root that both fail at add return the same error, and the
\* error returned has nothing of the cause in it.
C11_UniformAddFailure ==
  \A c, d \in Calls :
    /\ FailedAtAdd(calls[c]) =>
         /\ calls[c].result = Some(Err(UnableToHandle(Root(calls[c]).value)))
         /\ Unwrap(calls[c].result).error # AddCause(calls[c])
    /\ (FailedAtAdd(calls[c]) /\ FailedAtAdd(calls[d])
          /\ Root(calls[c]) = Root(calls[d])) =>
         calls[c].result = calls[d].result

\* Two calls with the same root that failed at add, one because the host
\* denied the fetch, one because the root is not in its sources.
C11_Witness ==
  \E c, d \in Calls :
    /\ FailedAtAdd(calls[c]) /\ FailedAtAdd(calls[d])
    /\ Root(calls[c]) = Root(calls[d])
    /\ AddCause(calls[c]).class = "PermissionDenied"
    /\ AddCause(calls[d]).class = "NotFound"
    /\ Unwrap(calls[c].handler).kind = "FetchHandler"
    /\ Unwrap(calls[d].handler).kind = "MemoryHandler"

\* The call made alone, with the host as it is, stopped at the statement
\* call st is at.
AloneAt(st) ==
  Poll([Invoke(IdleCall, Unwrap(st.args)) EXCEPT !.answers = st.answers],
       state, {st.pc})

====
